---- MODULE Spec2Model ----
(***************************************************************************)
(* Model of src/src/http_server.py: the Flask handlers, the request        *)
(* bridge (get_event_loop / run_async) and the MCPClient session manager.  *)
(*                                                                         *)
(* Request threads run the handlers; their steps interleave at every read  *)
(* or write of the module globals.  A coroutine submitted to an event loop *)
(* runs on that loop from one await to the next without interruption by    *)
(* another coroutine of the same loop, so each such segment is one action. *)
(* The awaits that really suspend are the transport open (subprocess       *)
(* launch), session.initialize(), the protocol request and aclose() of a   *)
(* stack that holds something.  A suspended coroutine resumes when the     *)
(* loop has run the callbacks queued before the completion of its call;    *)
(* the outcome of the call is the environment's choice at that moment.     *)
(*                                                                         *)
(* Identifiers: the requests that reach run_async are numbered in the      *)
(* order in which their handlers start; the task of request r, its         *)
(* AsyncExitStack, its subprocess and its ClientSession carry the id r.    *)
(* A request answered without run_async (GET /health, a call_tool the      *)
(* handler rejects) is one step of its thread and leaves no trace but its  *)
(* response, so its number is taken again by the request after it.         *)
(***************************************************************************)
EXTENDS Naturals, Sequences, FiniteSets

\* Number of requests that reach run_async in a run; a request is handled
\* while there is a number left.
MaxReq == 2

Req == 1..MaxReq

\* Number of faults of the environment in a run: a transport open, handshake or
\* request that fails on a healthy subprocess, a release that raises, a
\* subprocess that exits.
MaxFaults == 2

\* Number of requests whose wait bound elapses in a run.
MaxTimeouts == 1

\* Python's None for the object-valued globals and fields.
None == 0

VARIABLES
    thr,         \* request threads: position in the handler, the request
    response,    \* the HTTP response the last step sent, NoResponse if it sent none
    _loop,       \* global _loop (line 25): None or a loop id
    running,     \* loops for which is_running() is True
    carriers,    \* carriers[l]: started carrier threads that have not yet entered l.run_forever
    ready,       \* ready[l]: the loop's FIFO queue of submitted coroutines not yet started
    tasks,       \* the coroutine of each submitted operation
    session,     \* mcp_client.session (line 92)
    exit_stack,  \* mcp_client.exit_stack (line 93)
    stacks,      \* what each AsyncExitStack holds: the entered resources
    procs,       \* subprocess of each launch
    sess,        \* each ClientSession object: "new" before the handshake, "init" after it,
                 \* "stale" once a request has failed on it because its subprocess is
                 \* dead, "closed" when released
    faults,      \* faults of the environment so far
    cfg_file,    \* config.yml as load_config finds it
    cfg_env,     \* the environment variables that are set, of MCP_COMMAND, MCP_ARGS, PORT
    CONFIG       \* global CONFIG (line 81)

vars == <<thr, response, _loop, running, carriers, ready, tasks, session, exit_stack, stacks,
          procs, sess, faults, cfg_file, cfg_env, CONFIG>>

bridgeVars == <<_loop, running, carriers>>
clientVars == <<session, exit_stack, stacks, procs, sess, faults>>
configVars == <<cfg_file, cfg_env, CONFIG>>

----------------------------------------------------------------------------
\* Configuration (load_config, lines 44-83)

\* The settings under `server`.
Keys == {"name", "command", "args", "env", "port"}

\* The variables load_config reads from the environment.
EnvVars == {"MCP_COMMAND", "MCP_ARGS", "PORT"}

\* A value of a setting is named after where it comes from: "default" (lines
\* 49-57), "file" (config.yml), "env" (the environment variable); "missing" is
\* a key the `server` mapping does not have.
\* config.yml: absent (or unreadable, or empty), without a `server` key, or
\* with a `server` mapping that gives the keys of `keys`.
Files ==
    { [kind |-> "absent", keys |-> {}], [kind |-> "noserver", keys |-> {}] }
        \cup { [kind |-> "server", keys |-> K] : K \in SUBSET Keys }

\* lines 71-77: the environment variable that overrides a setting.
EnvOf(k) ==
    CASE k = "command" -> "MCP_COMMAND"
      [] k = "args"    -> "MCP_ARGS"
      [] k = "port"    -> "PORT"
      [] OTHER         -> "none"

\* lines 49-77.  config.update(loaded_config) replaces the value of the
\* top-level key `server` by the file's mapping as a whole; the overrides of
\* lines 72-77 assign single keys of it.
load_config(file, env) ==
    LET loaded == IF file.kind = "server"
                  THEN [k \in Keys |-> IF k \in file.keys THEN "file" ELSE "missing"]
                  ELSE [k \in Keys |-> "default"]
    IN  [server |-> [k \in Keys |-> IF EnvOf(k) \in env THEN "env" ELSE loaded[k]]]

\* CONFIG before line 81 has run.
NotLoaded == [server |-> [k \in Keys |-> "unset"]]

\* Lines 82-83 and 158-162 read every key of CONFIG['server'] while the
\* module is imported: with a key missing the import raises KeyError and the
\* server never serves.
Serves(config) == \A k \in Keys : config.server[k] \notin {"missing", "unset"}

\* The configurations the serving program is run with.
ServingInputs ==
    { <<[kind |-> "absent", keys |-> {}], {}>>,
      <<[kind |-> "server", keys |-> Keys], {"MCP_COMMAND"}>> }

\* The body of GET /health when no response was sent.
NoHealth == [status |-> "none", service |-> "none", command |-> "none", args |-> "none"]

----------------------------------------------------------------------------
\* The JSON bodies a POST /mcp/call_tool may carry: no JSON body at all, a JSON
\* value that is not an object, an object without name, with an empty name,
\* with a name.
NoBody == [json |-> "none", name |-> "absent"]

Bodies ==
    { NoBody,
      [json |-> "list", name |-> "absent"],
      [json |-> "obj", name |-> "absent"],
      [json |-> "obj", name |-> ""],
      [json |-> "obj", name |-> "t"] }

NoTask == [kind |-> "none", loop |-> None, pc |-> "none", st |-> None, s |-> None,
           res |-> "none", late |-> FALSE, seq |-> 0]

NoResponse == [kind |-> "none", body |-> NoBody, status |-> 0, err |-> "none",
               mcp_server |-> NoHealth]

\* The server before its first request.
InitServer ==
    /\ thr = [r \in Req |-> [pc |-> "new", kind |-> "none", body |-> NoBody]]
    /\ response = NoResponse
    /\ _loop = None
    /\ running = {}
    /\ carriers = [l \in Req |-> 0]
    /\ ready = [l \in Req |-> <<>>]
    /\ tasks = [r \in Req |-> NoTask]
    /\ session = None
    /\ exit_stack = None
    /\ stacks = [k \in Req |-> {}]
    /\ procs = [p \in Req |-> "none"]
    /\ sess = [s \in Req |-> "none"]
    /\ faults = 0

\* The serving process: the import has loaded the configuration.
Init ==
    /\ InitServer
    /\ \E in \in ServingInputs :
         /\ cfg_file = in[1]
         /\ cfg_env = in[2]
         /\ CONFIG = load_config(in[1], in[2])
         /\ Serves(CONFIG)

----------------------------------------------------------------------------
\* HTTP handlers (request threads)

\* A handler starts: requests are numbered in order of arrival.
Arrives(r) == thr[r].pc = "new" /\ \A q \in Req : q < r => thr[q].pc # "new"

\* return jsonify(...), status
Respond(kind, body, status, err) ==
    response' = [kind |-> kind, body |-> body, status |-> status, err |-> err,
                 mcp_server |-> NoHealth]

\* The thread of request r is finished.
Ends(r, pc) == thr' = [thr EXCEPT ![r] = [pc |-> pc, kind |-> "none", body |-> NoBody]]

\* line 31: if _loop is None or not _loop.is_running()
GetEventLoopCheck == IF _loop = None \/ _loop \notin running THEN "gel_new" ELSE "gel_ret"

\* The handler calls run_async(coro), which calls get_event_loop() (line 39).
EnterRunAsync(r, kind, body) ==
    /\ thr' = [thr EXCEPT ![r] = [pc |-> GetEventLoopCheck, kind |-> kind, body |-> body]]
    /\ response' = NoResponse

\* The body of the health response (lines 167-173).
HealthBody ==
    [status |-> "healthy",
     service |-> CONFIG.server["name"],
     command |-> CONFIG.server["command"],
     args |-> CONFIG.server["args"]]

\* GET /health that probes the session: 503 when there is no session or its
\* subprocess is dead.
health_probes_session(r) ==
    /\ Arrives(r)
    /\ IF session # None /\ procs[session] = "live"
       THEN response' = [kind |-> "health", body |-> NoBody, status |-> 200, err |-> "none",
                         mcp_server |-> HealthBody]
       ELSE response' = [kind |-> "health", body |-> NoBody, status |-> 503, err |-> "none",
                         mcp_server |-> [HealthBody EXCEPT !.status = "unhealthy"]]
    /\ UNCHANGED <<thr, bridgeVars, ready, tasks, clientVars, configVars>>

\* GET /health
health(r) ==
    /\ Arrives(r)
    /\ response' = [kind |-> "health", body |-> NoBody, status |-> 200, err |-> "none",
                     mcp_server |-> HealthBody]
    /\ UNCHANGED <<thr, bridgeVars, ready, tasks, clientVars>>
    /\ UNCHANGED configVars

\* GET or POST /mcp/list_tools, up to line 31
list_tools(r) ==
    /\ Arrives(r)
    /\ EnterRunAsync(r, "list_tools", NoBody)
    /\ UNCHANGED <<bridgeVars, ready, tasks, clientVars>>
    /\ UNCHANGED configVars

\* The check of line 206 written as `tool_name is None`: the empty name passes.
CallToolCheckNoneOnly(body) ==
    IF body.json # "obj" THEN "raise"
    ELSE IF body.name = "absent" THEN "reject"
    ELSE "run"

\* Lines 202-207 of call_tool: request.json, data.get('name'), `not tool_name`.
\* request.json raises (or yields None) without a JSON body; data.get raises
\* AttributeError when the JSON value is no object; both are caught by the
\* handler's except Exception.
CallToolCheck(body) ==
    IF body.json # "obj" THEN "raise"
    ELSE IF body.name \in {"absent", ""} THEN "reject"
    ELSE "run"

\* POST /mcp/call_tool, up to line 31
call_tool(r) ==
    /\ Arrives(r)
    /\ \E body \in Bodies :
         CASE CallToolCheck(body) = "raise" ->
                Respond("call_tool", body, 500, "exception") /\ UNCHANGED thr
           [] CallToolCheck(body) = "reject" ->
                Respond("call_tool", body, 400, "Tool name is required") /\ UNCHANGED thr
           [] OTHER ->
                EnterRunAsync(r, "call_tool", body)
    /\ UNCHANGED <<bridgeVars, ready, tasks, clientVars>>
    /\ UNCHANGED configVars

\* An external caller (signal handler, shutdown hook) running mcp_client.close()
\* through the bridge.
close_request(r) ==
    /\ Arrives(r)
    /\ EnterRunAsync(r, "close", NoBody)
    /\ UNCHANGED <<bridgeVars, ready, tasks, clientVars>>
    /\ UNCHANGED configVars

----------------------------------------------------------------------------
\* Request bridge

SetPc(r, pc) == thr' = [thr EXCEPT ![r].pc = pc]

\* The loops some thread or task can still reach.
LoopsInUse ==
    {_loop} \cup running \cup {l \in Req : carriers[l] > 0} \cup {tasks[t].loop : t \in Req}

\* A new loop object: the first id no loop in use has.
NewLoop == CHOOSE l \in Req : l \notin LoopsInUse /\ \A k \in Req : k < l => k \in LoopsInUse

\* line 32: _loop = asyncio.new_event_loop()
get_event_loop_new(r) ==
    /\ thr[r].pc = "gel_new"
    /\ _loop' = NewLoop
    /\ SetPc(r, "gel_thread")
    /\ response' = NoResponse
    /\ UNCHANGED <<running, carriers, ready, tasks, clientVars>>
    /\ UNCHANGED configVars

\* lines 33-34: Thread(target=_loop.run_forever).start(); _loop is read again
get_event_loop_start(r) ==
    /\ thr[r].pc = "gel_thread"
    /\ carriers' = [carriers EXCEPT ![_loop] = @ + 1]
    /\ SetPc(r, "gel_ret")
    /\ response' = NoResponse
    /\ UNCHANGED <<_loop, running, ready, tasks, clientVars>>
    /\ UNCHANGED configVars

\* The carrier thread enters run_forever: the loop is running from now on.
carrier_run(l) ==
    /\ carriers[l] > 0
    /\ l \notin running
    /\ carriers' = [carriers EXCEPT ![l] = @ - 1]
    /\ running' = running \cup {l}
    /\ response' = NoResponse
    /\ UNCHANGED <<thr, _loop, ready, tasks, clientVars>>
    /\ UNCHANGED configVars

\* A second carrier thread on the same loop: run_forever raises RuntimeError
\* ('This event loop is already running') and the thread ends.
carrier_dies(l) ==
    /\ carriers[l] > 0
    /\ l \in running
    /\ carriers' = [carriers EXCEPT ![l] = @ - 1]
    /\ response' = NoResponse
    /\ UNCHANGED <<thr, _loop, running, ready, tasks, clientVars>>
    /\ UNCHANGED configVars

\* An operation whose caller gave up waiting and which is still on its loop.
Abandoned(a) == thr[a].pc = "timed_out" /\ tasks[a].pc # "done"

\* MCPClient.list_tools and MCPClient.call_tool are the same coroutine up to
\* the request they issue (kind "op"), and from line 41 on the two handlers
\* are the same code up to the shape of the 200 body; "close" is MCPClient.close.
TaskKind(kind) == IF kind = "close" THEN "close" ELSE "op"

\* The number of operations scheduled so far.
Scheduled == Cardinality({t \in Req : tasks[t].pc # "none"})

\* line 35 and line 40: return _loop; asyncio.run_coroutine_threadsafe(coro, loop)
run_async_submit(r) ==
    /\ thr[r].pc = "gel_ret"
    /\ tasks' = [tasks EXCEPT ![r] = [NoTask EXCEPT !.kind = TaskKind(thr[r].kind),
                                          !.loop = _loop, !.pc = "start",
                                          !.late = \E a \in Req : Abandoned(a),
                                          !.seq = Scheduled + 1]]
    /\ ready' = [ready EXCEPT ![_loop] = Append(@, r)]
    /\ thr' = [thr EXCEPT ![r] = [pc |-> "wait", kind |-> TaskKind(thr[r].kind), body |-> NoBody]]
    /\ response' = NoResponse
    /\ UNCHANGED <<bridgeVars, clientVars>>
    /\ UNCHANGED configVars

\* line 41: future.result(timeout=120) returns or re-raises; then the handler
\* answers 200, or 500 from its except clause.
run_async_result(r) ==
    /\ thr[r].pc = "wait"
    /\ tasks[r].pc = "done"
    /\ Ends(r, "done")
    /\ IF thr[r].kind = "close" THEN response' = NoResponse
       ELSE IF tasks[r].res = "ok" THEN Respond("op", NoBody, 200, "none")
       ELSE Respond("op", NoBody, 500, tasks[r].res)
    /\ tasks' = [tasks EXCEPT ![r].res = "none"]
    /\ UNCHANGED <<bridgeVars, ready, clientVars>>
    /\ UNCHANGED configVars

\* line 41: the wait bound elapses first: TimeoutError, the future is not cancelled.
\* line 41 written as future.result(): no wait bound, the thread waits until
\* the operation completes.
WaitsForever(r) ==
    /\ FALSE
    /\ UNCHANGED vars

WaitElapses(r) ==
    /\ thr[r].pc = "wait"
    /\ tasks[r].pc # "done"
    /\ Ends(r, "timed_out")
    /\ IF thr[r].kind = "close" THEN response' = NoResponse
       ELSE Respond("op", NoBody, 500, "timeout")
    /\ UNCHANGED <<bridgeVars, ready, tasks, clientVars>>
    /\ UNCHANGED configVars

\* The same, for at most MaxTimeouts requests of a run.
run_async_timeout(r) ==
    /\ Cardinality({a \in Req : thr[a].pc = "timed_out"}) < MaxTimeouts
    /\ WaitElapses(r)

----------------------------------------------------------------------------
\* The event loop and the coroutines of MCPClient

\* The loop starts the coroutine at the head of its queue.
Starts(t) ==
    /\ tasks[t].pc = "start"
    /\ tasks[t].loop \in running
    /\ Head(ready[tasks[t].loop]) = t

Pop(t) == ready' = [ready EXCEPT ![tasks[t].loop] = Tail(@)]

\* The call the coroutine is suspended in completes and the loop resumes the
\* coroutine, after the callbacks that were queued before.
Resumes(t, pc) ==
    /\ tasks[t].pc = pc
    /\ tasks[t].loop \in running
    /\ ready[tasks[t].loop] = <<>>

Suspend(t, pc, st, s, res) ==
    tasks' = [tasks EXCEPT ![t].pc = pc, ![t].st = st, ![t].s = s, ![t].res = res]

\* The coroutine returns or raises: the future of run_coroutine_threadsafe is set.
Finish(t, res) ==
    tasks' = [tasks EXCEPT ![t] = [NoTask EXCEPT !.pc = "done", !.res = res]]

\* A fault of the environment, within the run's budget.
Fault == faults < MaxFaults /\ faults' = faults + 1

\* lines 130-136, entered with exception exc: release what self.exit_stack
\* holds, then reset the fields and re-raise.  aclose() of a stack that holds
\* nothing returns without suspending.
ExceptHandler(t, exc) ==
    IF exit_stack # None /\ stacks[exit_stack] # {}
    THEN /\ Suspend(t, "exc_wait", exit_stack, tasks[t].s, exc)
         /\ UNCHANGED <<session, exit_stack>>
    ELSE /\ Finish(t, exc)
         /\ session' = None
         /\ exit_stack' = None

\* lines 141 and 147: self.session.list_tools() / self.session.call_tool(...);
\* AttributeError when self.session is None.
IssueRequest(t) ==
    IF session = None
    THEN Finish(t, "NoSession")
    ELSE Suspend(t, "req_wait", None, session, "none")

\* lines 97-118: no session: new AsyncExitStack, launch the subprocess, suspend
\* in the transport open.
ensure_connection_connect(t) ==
    /\ Starts(t) /\ tasks[t].kind = "op"
    /\ session = None
    /\ exit_stack' = t
    /\ procs' = [procs EXCEPT ![t] = "live"]
    /\ Suspend(t, "open_wait", t, None, "none")
    /\ Pop(t)
    /\ response' = NoResponse
    /\ UNCHANGED <<thr, bridgeVars, session, stacks, sess, faults>>
    /\ UNCHANGED configVars

\* line 97 false: a session exists, _ensure_connection returns at once and the
\* request is issued on self.session.
ensure_connection_skip(t) ==
    /\ Starts(t) /\ tasks[t].kind = "op"
    /\ session # None
    /\ IssueRequest(t)
    /\ Pop(t)
    /\ response' = NoResponse
    /\ UNCHANGED <<thr, bridgeVars, clientVars>>
    /\ UNCHANGED configVars

\* lines 116-127: the transport is open and entered in the stack the open was
\* called on; ClientSession is entered in what self.exit_stack is now;
\* self.session is assigned; suspend in initialize().
ensure_connection_opened(t) ==
    /\ Resumes(t, "open_wait")
    /\ LET held == [stacks EXCEPT ![tasks[t].st] = @ \cup {<<"proc", t>>}]
       IN  IF exit_stack = None
           THEN \* AttributeError on None.enter_async_context, inside the try;
                \* lines 130-136 with no stack to release
                /\ stacks' = held
                /\ Finish(t, "NoStack")
                /\ session' = None
                /\ UNCHANGED <<exit_stack, sess>>
           ELSE /\ stacks' = [held EXCEPT ![exit_stack] = @ \cup {<<"sess", t>>}]
                /\ sess' = [sess EXCEPT ![t] = "new"]
                /\ session' = t
                /\ Suspend(t, "init_wait", None, t, "none")
                /\ UNCHANGED exit_stack
    /\ response' = NoResponse
    /\ UNCHANGED <<thr, bridgeVars, ready, procs, faults>>
    /\ UNCHANGED configVars

\* lines 130-133: the transport open raised (the subprocess did not come up).
ensure_connection_open_failed(t) ==
    /\ Resumes(t, "open_wait")
    /\ Fault
    /\ procs' = [procs EXCEPT ![t] = "gone"]
    /\ ExceptHandler(t, "ConnectionError")
    /\ response' = NoResponse
    /\ UNCHANGED <<thr, bridgeVars, ready, stacks, sess>>
    /\ UNCHANGED configVars

\* line 128, then line 141 or 147: initialize() returned.
ensure_connection_initialized(t) ==
    /\ Resumes(t, "init_wait")
    /\ sess[t] = "new"
    /\ sess' = [sess EXCEPT ![t] = "init"]
    /\ IssueRequest(t)
    /\ response' = NoResponse
    /\ UNCHANGED <<thr, bridgeVars, ready, session, exit_stack, stacks, procs, faults>>
    /\ UNCHANGED configVars

\* lines 130-133: initialize() raised: a fault of a healthy subprocess, or the
\* session was closed under the handshake.
ensure_connection_init_failed(t) ==
    /\ Resumes(t, "init_wait")
    /\ IF sess[t] = "new" THEN Fault ELSE UNCHANGED faults
    /\ ExceptHandler(t, "ConnectionError")
    /\ response' = NoResponse
    /\ UNCHANGED <<thr, bridgeVars, ready, stacks, procs, sess>>
    /\ UNCHANGED configVars

\* What an AsyncExitStack holds, by type ("proc" or "sess").
Held(k, type) == {e[2] : e \in {x \in k : x[1] = type}}

\* aclose() of stack st returned: every resource it held is released.
Release(st) ==
    /\ procs' = [p \in Req |-> IF p \in Held(stacks[st], "proc") THEN "gone" ELSE procs[p]]
    /\ sess' = [s \in Req |-> IF s \in Held(stacks[st], "sess") THEN "closed" ELSE sess[s]]
    /\ stacks' = [stacks EXCEPT ![st] = {}]

\* aclose() of stack st raised: the stack has popped its callbacks, what it
\* held stays as it is.
ReleaseFails(st) ==
    /\ stacks[st] # {}
    /\ Fault
    /\ stacks' = [stacks EXCEPT ![st] = {}]
    /\ UNCHANGED <<procs, sess>>

\* lines 133-136: aclose() returned: reset both fields, re-raise.
ensure_connection_released(t) ==
    /\ Resumes(t, "exc_wait")
    /\ Release(tasks[t].st)
    /\ exit_stack' = None
    /\ session' = None
    /\ Finish(t, tasks[t].res)
    /\ response' = NoResponse
    /\ UNCHANGED <<thr, bridgeVars, ready, faults>>
    /\ UNCHANGED configVars

\* line 133: aclose() raised inside the except clause: lines 134-135 are skipped.
ensure_connection_release_failed(t) ==
    /\ Resumes(t, "exc_wait")
    /\ ReleaseFails(tasks[t].st)
    /\ Finish(t, "ReleaseError")
    /\ response' = NoResponse
    /\ UNCHANGED <<thr, bridgeVars, ready, session, exit_stack>>
    /\ UNCHANGED configVars

\* A request can succeed on an initialized session of a live subprocess.
Healthy(s) == procs[s] = "live" /\ sess[s] = "init"

\* lines 142 and 148: the protocol request returned.
request_returns(t) ==
    /\ Resumes(t, "req_wait")
    /\ Healthy(tasks[t].s)
    /\ Finish(t, "ok")
    /\ response' = NoResponse
    /\ UNCHANGED <<thr, bridgeVars, ready, clientVars>>
    /\ UNCHANGED configVars

\* The protocol request raised, with a handler that drops the session: the
\* fields are reset without releasing what the stack holds.
request_fails_resets(t) ==
    /\ Resumes(t, "req_wait")
    /\ IF Healthy(tasks[t].s) THEN Fault ELSE UNCHANGED faults
    /\ Finish(t, "ProtocolError")
    /\ session' = None
    /\ exit_stack' = None
    /\ response' = NoResponse
    /\ UNCHANGED <<thr, bridgeVars, ready, stacks, procs, sess, configVars>>

\* lines 141 and 147: the protocol request raised: a fault of a healthy
\* session, or the subprocess is dead, the session closed or not initialized.
request_fails(t) ==
    /\ Resumes(t, "req_wait")
    /\ IF Healthy(tasks[t].s) THEN Fault ELSE UNCHANGED faults
    /\ Finish(t, "ProtocolError")
    /\ sess' = [sess EXCEPT ![tasks[t].s] =
                 IF @ = "init" /\ procs[tasks[t].s] = "dead" THEN "stale" ELSE @]
    /\ response' = NoResponse
    /\ UNCHANGED <<thr, bridgeVars, ready, session, exit_stack, stacks, procs>>
    /\ UNCHANGED configVars

\* lines 152-155 of close()
close_start(t) ==
    /\ Starts(t) /\ tasks[t].kind = "close"
    /\ IF exit_stack # None /\ stacks[exit_stack] # {}
       THEN /\ Suspend(t, "close_wait", exit_stack, None, "none")
            /\ UNCHANGED <<session, exit_stack>>
       ELSE /\ Finish(t, "ok")
            /\ session' = None
            /\ exit_stack' = None
    /\ Pop(t)
    /\ response' = NoResponse
    /\ UNCHANGED <<thr, bridgeVars, stacks, procs, sess, faults>>
    /\ UNCHANGED configVars

\* lines 153-155: aclose() returned.
close_released(t) ==
    /\ Resumes(t, "close_wait")
    /\ Release(tasks[t].st)
    /\ session' = None
    /\ exit_stack' = None
    /\ Finish(t, "ok")
    /\ response' = NoResponse
    /\ UNCHANGED <<thr, bridgeVars, ready, faults>>
    /\ UNCHANGED configVars

\* line 153: aclose() raised: lines 154-155 are skipped.
close_release_failed(t) ==
    /\ Resumes(t, "close_wait")
    /\ ReleaseFails(tasks[t].st)
    /\ Finish(t, "ReleaseError")
    /\ response' = NoResponse
    /\ UNCHANGED <<thr, bridgeVars, ready, session, exit_stack>>
    /\ UNCHANGED configVars

\* The subprocess of an established session exits on its own.  (A subprocess
\* that exits earlier makes the transport open or the handshake fail.)
proc_dies(p) ==
    /\ Healthy(p)
    /\ Fault
    /\ procs' = [procs EXCEPT ![p] = "dead"]
    /\ response' = NoResponse
    /\ UNCHANGED <<thr, bridgeVars, ready, tasks, session, exit_stack, stacks, sess>>
    /\ UNCHANGED configVars

----------------------------------------------------------------------------
Next ==
    \/ \E r \in Req :
         \/ health(r)
         \/ list_tools(r)
         \/ call_tool(r)
         \/ close_request(r)
         \/ get_event_loop_new(r)
         \/ get_event_loop_start(r)
         \/ run_async_submit(r)
         \/ run_async_result(r)
         \/ run_async_timeout(r)
    \/ \E l \in Req :
         \/ carrier_run(l)
         \/ carrier_dies(l)
    \/ \E t \in Req :
         \/ ensure_connection_connect(t)
         \/ ensure_connection_skip(t)
         \/ ensure_connection_opened(t)
         \/ ensure_connection_open_failed(t)
         \/ ensure_connection_initialized(t)
         \/ ensure_connection_init_failed(t)
         \/ ensure_connection_released(t)
         \/ ensure_connection_release_failed(t)
         \/ request_returns(t)
         \/ request_fails(t)
         \/ close_start(t)
         \/ close_released(t)
         \/ close_release_failed(t)
    \/ \E p \in Req : proc_dies(p)

Spec == Init /\ [][Next]_vars

----------------------------------------------------------------------------
\* The server with fairly scheduled request threads

\* line 41 for any number of requests of a run.
run_async_expires(r) ==
    /\ thr[r].pc = "wait"
    /\ WaitElapses(r)

NextLive ==
    \/ Next
    \/ \E r \in Req : run_async_expires(r)

\* A request thread that can take a step of get_event_loop or run_async takes
\* it: none of these steps waits for anything but the thread's own schedule,
\* and future.result(timeout=120) returns or raises within the wait bound.
\* The loops, the coroutines and the subprocess may stop for ever.
ThreadFairness ==
    \A r \in Req :
        /\ WF_vars(get_event_loop_new(r))
        /\ WF_vars(get_event_loop_start(r))
        /\ WF_vars(run_async_submit(r))
        /\ WF_vars(run_async_result(r) \/ run_async_expires(r))

LiveSpec == Init /\ [][NextLive]_vars /\ ThreadFairness

----------------------------------------------------------------------------
\* The import of the module, for every config.yml and environment

InitConfig ==
    /\ InitServer
    /\ cfg_file \in Files
    /\ cfg_env \in SUBSET EnvVars
    /\ CONFIG = NotLoaded

\* line 81: CONFIG = load_config()
module_import ==
    /\ CONFIG = NotLoaded
    /\ CONFIG' = load_config(cfg_file, cfg_env)
    /\ UNCHANGED <<thr, response, bridgeVars, ready, tasks, clientVars, cfg_file, cfg_env>>

NextConfig == module_import

SpecConfig == InitConfig /\ [][NextConfig]_vars

----------------------------------------------------------------------------
\* Claims

\* A step in which task t runs its first segment.
TaskBegins(t) == tasks[t].pc = "start" /\ tasks'[t].pc # "start"

\* A step in which task t returns or raises.
TaskEnds(t) == tasks[t].pc \notin {"none", "done"} /\ tasks'[t].pc = "done"

\* A step that launches the subprocess of task t.
Launch(t) == procs[t] = "none" /\ procs'[t] = "live"

\* The tasks that have run a segment and have not returned or raised.
InProgress == {t \in Req : tasks[t].pc \in {"open_wait", "init_wait", "req_wait",
                                               "exc_wait", "close_wait"}}

\* C1: once a call has launched the subprocess and the subprocess is up, no
\* call launches another one: a subprocess is launched only when none
\* launched earlier is alive, also for calls submitted while the first connect
\* is suspended.
C1_SingleLaunch ==
    [][\A t \in Req : Launch(t) => \A p \in Req : procs[p] # "live"]_vars

\* C2: no operation issues its protocol request on a session whose handshake
\* has not completed: the session field never shows a constructed but
\* uninitialized session to an operation.
C2_SessionInitialized ==
    [][\A t \in Req : (tasks[t].pc # "req_wait" /\ tasks'[t].pc = "req_wait")
                        => sess'[tasks'[t].s] # "new"]_vars

\* C3: operations do not overlap on the shared session: at most one submitted
\* operation is between its first Session Manager step and its completion.
C3_Serialized == Cardinality(InProgress) <= 1

\* C4: at most one background event loop runs at any time.
C4_SingleContext == Cardinality(running) <= 1

\* C5: when _ensure_connection raises the failure of its connect, nothing the
\* attempt acquired is still held and both fields are reset.
C5_CleanAfterFailure ==
    [][\A t \in Req : (TaskEnds(t) /\ tasks'[t].res = "ConnectionError")
                        => /\ session' = None
                           /\ exit_stack' = None
                           /\ procs'[t] # "live"
                           /\ sess'[t] \notin {"new", "init"}]_vars

\* C6: once a call has failed on the session of a dead subprocess, a call that
\* starts afterwards re-runs the connect sequence and launches a fresh
\* subprocess.
C6_Reconnects ==
    [][\A t \in Req : (TaskBegins(t) /\ tasks[t].kind = "op"
                         /\ session # None /\ sess[session] = "stale")
                        => (tasks'[t].pc = "open_wait" /\ Launch(t))]_vars

\* C7: close() ends with no session and no cleanup handle, whether the release
\* returned or raised.
C7_CloseResets ==
    [][\A t \in Req : (TaskEnds(t) /\ tasks[t].kind = "close")
                        => (session' = None /\ exit_stack' = None)]_vars

\* C8: an operation submitted while an abandoned operation (its caller timed
\* out) is still on the loop does not fail by finding the session or the
\* cleanup handle gone.
C8_AbandonedHarmless ==
    [][\A t \in Req : (TaskEnds(t) /\ tasks[t].late)
                        => tasks'[t].res \notin {"NoStack", "NoSession"}]_vars

\* The name of a call_tool request is empty or absent.
NameMissing(body) == body.json # "obj" \/ body.name \in {"absent", ""}

\* C9: a call_tool request whose name is empty or absent is answered in the
\* step that rejects it, which submits nothing, creates no loop, launches
\* nothing and leaves session and exit_stack as they are; no such request is
\* ever inside run_async.
C9_NoInteraction ==
    [][/\ (response'.kind = "call_tool" /\ NameMissing(response'.body))
            => UNCHANGED <<thr, _loop, running, carriers, ready, tasks, session, exit_stack,
                           stacks, procs, sess>>
       /\ \A r \in Req : thr'[r].kind = "call_tool" => ~NameMissing(thr'[r].body)]_vars

\* C9 witness: a call_tool without name is answered while a session is
\* established and another operation is in progress.
C9_Witness ==
    /\ response.kind = "call_tool" /\ response.body.json = "obj" /\ response.body.name = ""
    /\ session # None /\ sess[session] = "init"
    /\ InProgress # {}

\* C10: a call_tool request whose name is missing or empty is answered 400
\* 'Tool name is required', whatever else the request holds.
C10_Status400 ==
    (response.kind = "call_tool" /\ NameMissing(response.body))
        => (response.status = 400 /\ response.err = "Tool name is required")

\* C11: every failure of a list_tools or call_tool request is answered with an
\* error: 400 when the request is invalid (no usable tool name), 500 for a
\* failed or timed-out operation; 200 is answered only for an operation that
\* returned.
C11_FailuresMapped ==
    [][/\ \A r \in Req :
            (thr[r].pc = "wait" /\ thr[r].kind = "op" /\ thr'[r].pc \in {"done", "timed_out"})
                => /\ response'.kind = "op"
                   /\ response'.status =
                        IF thr'[r].pc = "done" /\ tasks[r].res = "ok" THEN 200 ELSE 500
       /\ (response'.kind = "call_tool" /\ NameMissing(response'.body))
            => response'.status = 400]_vars

\* A subprocess that was launched, is alive and is not held by the current
\* cleanup handle, its launch being complete.
Orphaned(p) ==
    /\ procs[p] = "live"
    /\ tasks[p].pc # "open_wait"
    /\ (exit_stack = None \/ <<"proc", p>> \notin stacks[exit_stack])

\* C12: at most one live subprocess and at most one protocol session exist,
\* and every live subprocess is held by the current cleanup handle.
C12_OneSubprocess ==
    /\ Cardinality({p \in Req : procs[p] = "live"}) <= 1
    /\ Cardinality({s \in Req : sess[s] \in {"new", "init", "stale"}}) <= 1
    /\ \A p \in Req : ~Orphaned(p)

\* The value the stated precedence gives setting k: the environment override
\* when it is set, else the file's value when the file gives one, else the
\* default.
Expected(k) ==
    IF EnvOf(k) \in cfg_env THEN "env"
    ELSE IF cfg_file.kind = "server" /\ k \in cfg_file.keys THEN "file"
    ELSE "default"

\* C13: once the configuration is loaded, every setting has the value the
\* precedence environment > file > default gives it, also when the file gives
\* only some of the keys under server.
C13_Precedence ==
    CONFIG # NotLoaded => \A k \in Keys : CONFIG.server[k] = Expected(k)

\* The call of request q has failed in _ensure_connection and nothing else is
\* in progress.
ConnectFailed(q) ==
    /\ thr[q].pc = "wait" /\ thr[q].kind = "op"
    /\ tasks[q].pc = "done" /\ tasks[q].res \in {"ConnectionError", "ReleaseError"}
    /\ InProgress = {}

\* C14: the call that starts after a call has failed to connect makes a fresh
\* launch attempt: it runs the connect sequence and launches a subprocess.
C14_LazyReconnect ==
    [][\A t \in Req : (TaskBegins(t) /\ tasks[t].kind = "op"
                         /\ \E q \in Req : ConnectFailed(q))
                        => Launch(t)]_vars

\* C15: whenever no operation is in progress, session is present exactly when
\* the cleanup handle is present, and the present session is held by the
\* present cleanup handle.
C15_SetTogether ==
    InProgress = {}
        => /\ (session = None) <=> (exit_stack = None)
           /\ session # None => <<"sess", session>> \in stacks[exit_stack]

\* C16: operations start in the order in which they were scheduled: when an
\* operation runs its first step, no operation scheduled before it is still
\* waiting to start.
C16_StartOrder ==
    [][\A t \in Req : TaskBegins(t)
          => \A q \in Req : tasks[q].pc = "start" => tasks[q].seq >= tasks[t].seq]_vars

\* C17: a listTools or callTool operation either returns, or fails with the
\* failure of its connect (raised by _ensure_connection), or fails with the
\* failure of its protocol request; it never fails by finding the session or
\* the cleanup handle absent.
C17_FailureClasses ==
    [][\A t \in Req : (TaskEnds(t) /\ tasks[t].kind = "op")
          => tasks'[t].res \in {"ok", "ConnectionError", "ReleaseError", "ProtocolError"}]_vars

\* A step of the call of task t on a session that already exists: the check
\* of line 97 with the request issued, or the failure of the request.
StepOnEstablished(t) ==
    \/ TaskBegins(t) /\ tasks[t].kind = "op" /\ session # None
    \/ tasks[t].pc = "req_wait" /\ TaskEnds(t) /\ tasks'[t].res = "ProtocolError"

\* C18: a call whose protocol request fails on an established session leaves
\* session and cleanup handle as they are, launches nothing and releases
\* nothing.
C18_FailedRequestFrame ==
    [][\A t \in Req : StepOnEstablished(t)
          => /\ UNCHANGED <<session, exit_stack, stacks, procs>>
             /\ \A s \in Req : sess'[s] = "closed" => sess[s] = "closed"]_vars

\* C18 witness: a call that launched nothing has failed on the established
\* session, whose subprocess is dead; the session is still the current one
\* and still held by the cleanup handle.
C18_Witness ==
    \E t \in Req :
        /\ tasks[t].pc = "done" /\ tasks[t].res = "ProtocolError"
        /\ procs[t] = "none"
        /\ session # None /\ session # t
        /\ sess[session] = "stale" /\ procs[session] = "dead"
        /\ exit_stack # None /\ <<"sess", session>> \in stacks[exit_stack]

\* The thread of request r has sent its response.
Answered(r) == thr[r].pc \in {"done", "timed_out"}

\* C19: every list_tools or call_tool request that has entered run_async is
\* eventually answered, also when its operation never completes, and it is
\* answered once: the response is sent in the step that ends the thread, and an
\* ended thread takes no further step.
C19_EveryRequestAnswered ==
    /\ \A r \in Req : (thr[r].pc # "new") ~> Answered(r)
    /\ [][\A r \in Req :
            /\ (~Answered(r) /\ Answered(r)' /\ thr[r].kind = "op") => response'.kind = "op"
            /\ Answered(r) => thr'[r] = thr[r]]_vars

\* C19 witness: a request was answered at the wait bound while its operation
\* is still suspended in the transport open or in the protocol request.
C19_Witness ==
    \E r \in Req : thr[r].pc = "timed_out" /\ tasks[r].pc \in {"open_wait", "req_wait"}

\* C20: GET /health answers 200 with status 'healthy' and the configured
\* command and args, whatever the state of the session and the subprocess, and
\* the step changes nothing: no thread, loop, queue, operation, session,
\* cleanup handle, subprocess or configuration.
C20_HealthFrame ==
    [][response'.kind = "health"
          => /\ response'.status = 200
             /\ response'.mcp_server.status = "healthy"
             /\ response'.mcp_server.service = Expected("name")
             /\ response'.mcp_server.command = Expected("command")
             /\ response'.mcp_server.args = Expected("args")
             /\ UNCHANGED <<thr, _loop, running, carriers, ready, tasks, session, exit_stack,
                            stacks, procs, sess, faults, CONFIG>>]_vars

\* C20 witness: /health is answered while the session is present and its
\* subprocess is dead, with a command taken from the environment override.
C20_Witness ==
    /\ response.kind = "health" /\ response.status = 200
    /\ response.mcp_server.command = "env"
    /\ session # None /\ procs[session] = "dead"

====
